---- MODULE Spec2Model ----
(***************************************************************************)
(* Model of retroachievements/client.py: the RAClient handle, its          *)
(* validator, the _call_api dispatcher and the endpoint wrappers.          *)
(*                                                                         *)
(* Python values are tagged tuples <<type, payload>>.  A str is a sequence *)
(* of atoms whose concatenation is the text: single characters wherever    *)
(* the code looks inside the string (the CSV validator, strftime), one     *)
(* atom per literal where the string is only passed along or compared.     *)
(* A dict is a function from its keys to values.                           *)
(***************************************************************************)
EXTENDS Integers, Sequences, FiniteSets, TLC

VARIABLES
    api_key,        \* self.api_key
    today,          \* the local calendar date datetime.date.today() reads
    pc,             \* "idle"; "get", "get_json" while request.get blocks; "done"
    call,           \* the invocation in progress, or the last one: [op, args]
    get_count,      \* how many times request.get has been called
    entry_count,    \* get_count when the invocation in `call` was entered
    sent,           \* the request.get calls of the invocation in `call`
    response,       \* how the request.get of the invocation in `call` ended
    outcome,        \* how the invocation in `call` ended
    advisories,     \* the warnings.warn calls of the invocation in `call`
    caller_params   \* the caller's own params mapping, as it is after the call

vars == <<api_key, today, pc, call, get_count, entry_count, sent,
          response, outcome, advisories, caller_params>>

----------------------------------------------------------------------------
(* Bounds of the model *)

\* longest string handed to the validator and to get_user_progress
MaxLen == 4

\* request.get calls in one behaviour
MaxRequests == 2

----------------------------------------------------------------------------
(* Python values *)

None == <<"NoneType">>
PyInt(n) == <<"int", n>>
PyBool(b) == <<"bool", b>>
PyFloat(n) == <<"float", n>>
PyStr(s) == <<"str", s>>
PyDict(f) == <<"dict", f>>
PyList(s) == <<"list", s>>

TypeOf(v) == v[1]
IsNone(v) == TypeOf(v) = "NoneType"

\* isinstance(v, cls): bool is a subclass of int
IsInstance(v, cls) ==
    \/ TypeOf(v) = cls
    \/ cls = "int" /\ TypeOf(v) = "bool"

\* a == b: numbers compare by value across int, bool and float
PyEq(a, b) ==
    LET num == {"int", "bool", "float"} IN
    IF TypeOf(a) \in num /\ TypeOf(b) \in num THEN a[2] = b[2]
    ELSE TypeOf(a) = TypeOf(b) /\ a = b

\* v in [x1, x2, ...]
PyIn(v, xs) == \E i \in 1..Len(xs) : PyEq(v, xs[i])

\* the empty dict
EmptyMap == [k \in {} |-> None]

----------------------------------------------------------------------------
(* Strings, character by character *)

Digits == {"0", "1", "2", "3", "4", "5", "6", "7", "8", "9"}
Whitespace == {" "}

RECURSIVE split(_, _)
\* str.split(sep): the pieces between separators, empty pieces included
split(s, sep) ==
    IF \A i \in 1..Len(s) : s[i] # sep THEN <<s>>
    ELSE LET i == CHOOSE j \in 1..Len(s) :
                      s[j] = sep /\ \A k \in 1..(j - 1) : s[k] # sep
         IN <<SubSeq(s, 1, i - 1)>> \o split(SubSeq(s, i + 1, Len(s)), sep)

RECURSIVE lstrip(_)
lstrip(s) ==
    IF Len(s) > 0 /\ s[1] \in Whitespace THEN lstrip(Tail(s)) ELSE s

RECURSIVE rstrip(_)
rstrip(s) ==
    IF Len(s) > 0 /\ s[Len(s)] \in Whitespace
    THEN rstrip(SubSeq(s, 1, Len(s) - 1)) ELSE s

\* str.strip()
strip(s) == rstrip(lstrip(s))

\* str.isdigit(): at least one character, all of them digits
isdigit(s) == Len(s) > 0 /\ \A i \in 1..Len(s) : s[i] \in Digits

----------------------------------------------------------------------------
(* Calling a Python function: binding the supplied arguments *)

\* a parameter without a default, and one with a default
Req(name) == [name |-> name, has_default |-> FALSE, default |-> None]
Opt(name, d) == [name |-> name, has_default |-> TRUE, default |-> d]

\* The arguments a caller may supply: `cands` maps each parameter name to the
\* values tried for it; any subset of the parameters may be left out.
Supplied(cands) ==
    UNION { { a \in [S -> UNION { cands[n] : n \in S }] :
                  \A n \in S : a[n] \in cands[n] } : S \in SUBSET DOMAIN cands }

\* Binding: a parameter the caller left out takes its default; one without a
\* default makes the call raise TypeError before the body runs.
Bind(sig, a) ==
    LET names == { sig[i].name : i \in 1..Len(sig) }
        at(n) == CHOOSE i \in 1..Len(sig) : sig[i].name = n
    IN  [ ok |-> \A i \in 1..Len(sig) :
                     sig[i].has_default \/ sig[i].name \in DOMAIN a,
          v  |-> [ n \in names |->
                     IF n \in DOMAIN a THEN a[n] ELSE sig[at(n)].default ] ]

----------------------------------------------------------------------------
(* What running a function body leads to *)

\* the body raised `exc` before any request
Raise(exc) ==
    [ end |-> "raise", exc |-> exc, advisories |-> <<>>,
      caller_params |-> None ]

\* the body called request.get(url, params=, timeout=, headers=) and blocks;
\* `then` is what it does with the response: "return" it or decode its ".json()"
Get(req, then, cp) ==
    [ end |-> "get", request |-> req, then |-> then, advisories |-> <<>>,
      caller_params |-> cp ]

\* the body returned `value` without any request
Return(value, cp) ==
    [ end |-> "return", value |-> value, advisories |-> <<>>,
      caller_params |-> cp ]

\* the advisory raised as an exception instead of being issued as a warning
Warn_raises(category, stacklevel, rest) ==
    [ Raise(category) EXCEPT !.advisories =
          <<[category |-> category, stacklevel |-> stacklevel]>> ]

\* warnings.warn(message, category, stacklevel=...) and then the rest of the body
Warn(category, stacklevel, rest) ==
    [ rest EXCEPT !.advisories =
          <<[category |-> category, stacklevel |-> stacklevel]>> \o @ ]

----------------------------------------------------------------------------
(* RAClient *)

_BASE_URL == "https://retroachievements.org/API/"

\* the retroachievements package's version string
__version__ == "__version__"

\* the class attribute RAClient.headers
headers == PyDict("User-Agent" :> PyStr(<<"RetroAchievements-api-python/", __version__>>))

DefaultTimeout == 30

\* url_params keeps a caller-supplied "y" (dict.setdefault instead of update)
url_params_setdefault(params) ==
    LET p == IF IsNone(params) THEN EmptyMap ELSE params[2]
    IN  PyDict(IF "y" \in DOMAIN p THEN p ELSE ("y" :> api_key) @@ p)

\* url_params(params): the mapping it returns.  A caller-supplied mapping is
\* updated in place, so the returned mapping is also the caller's afterwards.
url_params(params) ==
    LET p == IF IsNone(params) THEN EmptyMap ELSE params[2]
    IN  PyDict(("y" :> api_key) @@ p)

\* url_params working on a copy: the caller's mapping stays as it was passed
params_after_copy(params) == params

\* The caller's own mapping after url_params(params): params.update(...) acts
\* on the object that was passed, and only params = None gets a new dict, which
\* the caller does not hold.
params_after(params) ==
    IF IsNone(params) THEN None ELSE url_params(params)

\* is_valid_game_csv without the call to strip()
is_valid_game_csv_nostrip(value) ==
    IF IsInstance(value, "int") THEN TRUE
    ELSE IF IsInstance(value, "str") THEN
        LET parts == split(value[2], ",")
        IN  \A i \in 1..Len(parts) : Len(parts[i]) > 0 => isdigit(parts[i])
    ELSE FALSE

is_valid_game_csv(value) ==
    IF IsInstance(value, "int") THEN TRUE
    ELSE IF IsInstance(value, "str") THEN
        LET parts == split(value[2], ",")
        IN  \A i \in 1..Len(parts) :
                Len(parts[i]) > 0 => isdigit(strip(parts[i]))
    ELSE FALSE

\* the signature of _call_api
call_api_sig ==
    << Opt("endpoint", None), Opt("params", None),
       Opt("timeout", PyInt(DefaultTimeout)), Opt("headers", None) >>

\* _call_api(**a): the request.get call it makes; the response is returned as is
_call_api(a) ==
    LET b == Bind(call_api_sig, a).v
        endpoint == IF IsNone(b["endpoint"]) THEN PyStr(<<>>) ELSE b["endpoint"]
        sent_params == url_params(b["params"])
    IN  Get([ url     |-> <<_BASE_URL>> \o endpoint[2],
              params  |-> sent_params,
              timeout |-> b["timeout"],
              headers |-> b["headers"] ],
            "return",
            params_after(b["params"]))

\* self._call_api(endpoint, params).json() as every wrapper writes it
call_api_json(endpoint, params) ==
    [ _call_api("endpoint" :> PyStr(endpoint) @@ "params" :> PyDict(params))
          EXCEPT !.then = "json", !.caller_params = None ]

----------------------------------------------------------------------------
(* datetime.date.today().strftime("%Y-%m-%d") *)

DigitChars == <<"0", "1", "2", "3", "4", "5", "6", "7", "8", "9">>

\* n in decimal, zero-padded to `width` digits
zero_pad(n, width) ==
    [ i \in 1..width |-> DigitChars[((n \div (10 ^ (width - i))) % 10) + 1] ]

\* %Y-%m-%d: four-digit year, two-digit month, two-digit day
strftime_Ymd(d) ==
    zero_pad(d.year, 4) \o <<"-">> \o zero_pad(d.month, 2) \o <<"-">>
        \o zero_pad(d.day, 2)

----------------------------------------------------------------------------
(* The values the callers and the environment are drawn from *)

Keys == { PyStr(<<"abc123">>), PyStr(<<"key2">>) }

Dates == { [year |-> 2026, month |-> 11, day |-> 5],
           [year |-> 2027, month |-> 1, day |-> 31] }

Users == { PyStr(<<"user">>) }
Ulids == { PyStr(<<"ulid">>) }
Ids == { PyInt(10) }
Numbers == { PyInt(7) }
Flags == { PyInt(0), PyInt(1), PyInt(2) }
Levels == { PyInt(3), PyInt(4), PyInt(5) }
Targets == { PyInt(1), PyInt(2), PyInt(3), PyInt(4) }
Sorts == { PyStr(<<"submitted">>), PyStr(<<"-submitted">>), PyStr(<<"title">>) }
AwardKinds ==
    { None, PyStr(<<"beaten-softcore">>), PyStr(<<"beaten-hardcore">>),
      PyStr(<<"completed">>), PyStr(<<"mastered">>), PyStr(<<"beaten">>) }
ClaimKinds == { PyInt(0), PyInt(1), PyInt(2), PyInt(3) }
DateArgs == { None, PyStr(<<"2", "0", "2", "5", "-", "0", "1", "-", "0", "2">>) }

\* the characters of the strings handed to the validator
CsvChars == { "1", "a", ",", " " }

CsvStrings == UNION { [1..n -> CsvChars] : n \in 0..MaxLen }

\* the strings the docstring of is_valid_game_csv lists as valid
DocValid ==
    { PyStr(<<"1", "2", "3", "4", "5">>),
      PyStr(<<"1", "2", "3", "4", "5", ",", " ", "6", "7", "8", "9", "0">>),
      PyStr(<<"1", "2", "3", ",", " ", "4", "5", "6", ",", " ", "7", "8", "9">>) }

\* the strings the docstring of is_valid_game_csv lists as invalid
DocInvalid ==
    { PyStr(<<"1", "2", "3", "a">>),
      PyStr(<<"1", "2", "3", ",", ",", "4", "5", "6">>),
      PyStr(<<"1", "2", "3", ",", " ">>) }

\* what a caller may pass where a game ID or a CSV of game IDs is expected
GameArgs ==
    { PyInt(10), PyInt(12345), PyBool(1), PyFloat(10), None,
      PyList(<<PyInt(10)>>) }
        \cup { PyStr(s) : s \in CsvStrings } \cup DocValid \cup DocInvalid

\* params mappings a caller may hand to url_params and _call_api
CallerParams ==
    { None, PyDict(EmptyMap),
      PyDict("y" :> PyStr(<<"abc123">>)),
      PyDict("y" :> PyStr(<<"other">>)),
      PyDict("i" :> PyInt(10)),
      PyDict("i" :> PyInt(10) @@ "y" :> PyStr(<<"other">>)) }

Endpoints == { None, PyStr(<<"API_GetGame.php", "?">>) }

\* how request.get may end: an exception of the transport, or a response
TransportErrors == { "ConnectionError", "Timeout" }
Statuses == { 200, 404 }
Bodies == { PyStr(<<"{", "}">>), PyStr(<<"[", "]">>), PyStr(<<"<html>">>) }

----------------------------------------------------------------------------
(* The state machine *)

NoCall == [op |-> "", args |-> EmptyMap]
NoResponse == [kind |-> "none", exc |-> "", status |-> 0, body |-> PyStr(<<>>)]
Pending == [kind |-> "pending", exc |-> "", value |-> None]
Raised(exc) == [kind |-> "raised", exc |-> exc, value |-> None]
Returned(v) == [kind |-> "returned", exc |-> "", value |-> v]

\* RAClient(api_key)
Init ==
    /\ api_key \in Keys
    /\ today \in Dates
    /\ pc = "idle"
    /\ call = NoCall
    /\ get_count = 0
    /\ entry_count = 0
    /\ sent = <<>>
    /\ response = NoResponse
    /\ outcome = [kind |-> "none", exc |-> "", value |-> None]
    /\ advisories = <<>>
    /\ caller_params = None

\* Invoke storing a caller-supplied "y" in self.api_key
Invoke_stores_key(op, a, e) ==
    /\ pc = "idle"
    /\ call' = [op |-> op, args |-> a]
    /\ entry_count' = get_count
    /\ advisories' = e.advisories
    /\ caller_params' = e.caller_params
    /\ response' = NoResponse
    /\ CASE e.end = "raise" ->
              /\ pc' = "done"
              /\ outcome' = Raised(e.exc)
              /\ UNCHANGED <<get_count, sent>>
         [] e.end = "return" ->
              /\ pc' = "done"
              /\ outcome' = Returned(e.value)
              /\ UNCHANGED <<get_count, sent>>
         [] e.end = "get" ->
              /\ get_count < MaxRequests
              /\ get_count' = get_count + 1
              /\ sent' = <<e.request>>
              /\ pc' = IF e.then = "json" THEN "get_json" ELSE "get"
              /\ outcome' = Pending
    /\ api_key' = IF /\ "params" \in DOMAIN a
                     /\ TypeOf(a["params"]) = "dict"
                     /\ "y" \in DOMAIN a["params"][2]
                  THEN a["params"][2]["y"] ELSE api_key
    /\ UNCHANGED today

\* A caller invokes `op` with the arguments `a`; `e` is what the body leads to.
\* The invocation runs up to its end, or up to the request.get it blocks in.
Invoke(op, a, e) ==
    /\ pc = "idle"
    /\ call' = [op |-> op, args |-> a]
    /\ entry_count' = get_count
    /\ advisories' = e.advisories
    /\ caller_params' = e.caller_params
    /\ response' = NoResponse
    /\ CASE e.end = "raise" ->
              /\ pc' = "done"
              /\ outcome' = Raised(e.exc)
              /\ UNCHANGED <<get_count, sent>>
         [] e.end = "return" ->
              /\ pc' = "done"
              /\ outcome' = Returned(e.value)
              /\ UNCHANGED <<get_count, sent>>
         [] e.end = "get" ->
              /\ get_count < MaxRequests
              /\ get_count' = get_count + 1
              /\ sent' = <<e.request>>
              /\ pc' = IF e.then = "json" THEN "get_json" ELSE "get"
              /\ outcome' = Pending
    /\ UNCHANGED <<api_key, today>>

get_user_profile ==
    \E args \in Supplied([user |-> Users, ulid |-> Ulids]) :
        LET b == Bind(<<Req("user"), Req("ulid")>>, args)
            user == b.v["user"]
            ulid == b.v["ulid"]
        IN  Invoke("get_user_profile", args,
                IF ~b.ok THEN Raise("TypeError") ELSE
                call_api_json(<<"API_GetUserProfile.php", "?">>,
                    [u |-> user, i |-> ulid]))

get_user_recent_achievements ==
    \E args \in Supplied([user |-> Users, minutes |-> Numbers]) :
        LET b == Bind(<<Req("user"), Opt("minutes", PyInt(60))>>, args)
            user == b.v["user"]
            minutes == b.v["minutes"]
        IN  Invoke("get_user_recent_achievements", args,
                IF ~b.ok THEN Raise("TypeError") ELSE
                call_api_json(<<"API_GetUserRecentAchievements.php", "?">>,
                    [u |-> user, m |-> minutes]))

get_user_achievements_earned_between ==
    \E args \in Supplied([user |-> Users, start |-> Numbers, end |-> Numbers]) :
        LET b == Bind(<<Req("user"), Req("start"), Req("end")>>, args)
            user == b.v["user"]
            start == b.v["start"]
            end == b.v["end"]
        IN  Invoke("get_user_achievements_earned_between", args,
                IF ~b.ok THEN Raise("TypeError") ELSE
                call_api_json(<<"API_GetAchievementsEarnedBetween.php", "?">>,
                    [u |-> user, s |-> start, e |-> end]))

get_user_achievements_earned_on_day ==
    \E args \in Supplied([user |-> Users, date |-> DateArgs]) :
        LET b == Bind(<<Req("user"), Req("date")>>, args)
            user == b.v["user"]
            date == b.v["date"]
            date_1 == IF IsNone(date) THEN PyStr(strftime_Ymd(today)) ELSE date
        IN  Invoke("get_user_achievements_earned_on_day", args,
                IF ~b.ok THEN Raise("TypeError") ELSE
                call_api_json(<<"API_GetAchievementsEarnedOnDay.php", "?">>,
                    [u |-> user, d |-> date_1]))

get_game_info_and_user_progress ==
    \E args \in Supplied([user |-> Users, game |-> Ids, awards |-> Flags]) :
        LET b == Bind(<<Req("user"), Req("game"), Opt("awards", PyInt(0))>>, args)
            user == b.v["user"]
            game == b.v["game"]
            awards == b.v["awards"]
        IN  Invoke("get_game_info_and_user_progress", args,
                IF ~b.ok THEN Raise("TypeError") ELSE
                IF ~PyIn(awards, <<PyInt(0), PyInt(1)>>) THEN Raise("ValueError") ELSE
                call_api_json(<<"API_GetGameInfoAndUserProgress.php", "?">>,
                    [u |-> user, g |-> game, a |-> awards]))

get_user_completion_progress ==
    \E args \in Supplied([user |-> Users, count |-> Numbers, offset |-> Numbers]) :
        LET b == Bind(<<Req("user"), Opt("count", PyInt(100)), Opt("offset", PyInt(0))>>, args)
            user == b.v["user"]
            count == b.v["count"]
            offset == b.v["offset"]
        IN  Invoke("get_user_completion_progress", args,
                IF ~b.ok THEN Raise("TypeError") ELSE
                call_api_json(<<"API_GetUserCompletionProgress.php", "?">>,
                    [u |-> user, c |-> count, o |-> offset]))

get_user_awards ==
    \E args \in Supplied([user |-> Users]) :
        LET b == Bind(<<Req("user")>>, args)
            user == b.v["user"]
        IN  Invoke("get_user_awards", args,
                IF ~b.ok THEN Raise("TypeError") ELSE
                call_api_json(<<"API_GetUserAwards.php", "?">>,
                    [u |-> user]))

get_user_claims ==
    \E args \in Supplied([user |-> Users]) :
        LET b == Bind(<<Req("user")>>, args)
            user == b.v["user"]
        IN  Invoke("get_user_claims", args,
                IF ~b.ok THEN Raise("TypeError") ELSE
                call_api_json(<<"API_GetUserClaims.php", "?">>,
                    [u |-> user]))

get_user_game_rank_and_score ==
    \E args \in Supplied([user |-> Users, game |-> Ids]) :
        LET b == Bind(<<Req("user"), Req("game")>>, args)
            user == b.v["user"]
            game == b.v["game"]
        IN  Invoke("get_user_game_rank_and_score", args,
                IF ~b.ok THEN Raise("TypeError") ELSE
                call_api_json(<<"API_GetUserGameRankAndScore.php", "?">>,
                    [u |-> user, g |-> game]))

get_user_points ==
    \E args \in Supplied([user |-> Users]) :
        LET b == Bind(<<Req("user")>>, args)
            user == b.v["user"]
        IN  Invoke("get_user_points", args,
                IF ~b.ok THEN Raise("TypeError") ELSE
                call_api_json(<<"API_GetUserPoints.php", "?">>,
                    [u |-> user]))

get_user_progress ==
    \E args \in Supplied([user |-> Users, game |-> GameArgs]) :
        LET b == Bind(<<Req("user"), Req("game")>>, args)
            user == b.v["user"]
            game == b.v["game"]
        IN  Invoke("get_user_progress", args,
                IF ~b.ok THEN Raise("TypeError") ELSE
                Warn("Warning", 2,
                IF ~is_valid_game_csv(game) THEN Raise("ValueError") ELSE
                call_api_json(<<"API_GetUserProgress.php", "?">>,
                    [u |-> user, i |-> game])))

get_user_recently_played_games ==
    \E args \in Supplied([user |-> Users, count |-> Numbers, offset |-> Numbers]) :
        LET b == Bind(<<Req("user"), Opt("count", PyInt(10)), Opt("offset", PyInt(0))>>, args)
            user == b.v["user"]
            count == b.v["count"]
            offset == b.v["offset"]
        IN  Invoke("get_user_recently_played_games", args,
                IF ~b.ok THEN Raise("TypeError") ELSE
                call_api_json(<<"API_GetUserRecentlyPlayedGames.php", "?">>,
                    [u |-> user, c |-> count, o |-> offset]))

get_user_summary ==
    \E args \in Supplied([user |-> Users, recent_games |-> Numbers, recent_cheevos |-> Numbers]) :
        LET b == Bind(<<Req("user"), Opt("recent_games", PyInt(0)), Opt("recent_cheevos", PyInt(10))>>, args)
            user == b.v["user"]
            recent_games == b.v["recent_games"]
            recent_cheevos == b.v["recent_cheevos"]
        IN  Invoke("get_user_summary", args,
                IF ~b.ok THEN Raise("TypeError") ELSE
                Warn("Warning", 2,
                call_api_json(<<"API_GetUserSummary.php", "?">>,
                    [u |-> user, g |-> recent_games, a |-> recent_cheevos])))

get_user_completed_games ==
    \E args \in Supplied([user |-> Users]) :
        LET b == Bind(<<Req("user")>>, args)
            user == b.v["user"]
        IN  Invoke("get_user_completed_games", args,
                IF ~b.ok THEN Raise("TypeError") ELSE
                Warn("DeprecationWarning", 2,
                call_api_json(<<"API_GetUserCompletedGames.php", "?">>,
                    [u |-> user])))

get_user_want_to_play_list ==
    \E args \in Supplied([user |-> Users, count |-> Numbers, offset |-> Numbers]) :
        LET b == Bind(<<Req("user"), Opt("count", PyInt(100)), Opt("offset", PyInt(0))>>, args)
            user == b.v["user"]
            count == b.v["count"]
            offset == b.v["offset"]
        IN  Invoke("get_user_want_to_play_list", args,
                IF ~b.ok THEN Raise("TypeError") ELSE
                call_api_json(<<"API_GetUserWantToPlayList.php", "?">>,
                    [u |-> user, c |-> count, o |-> offset]))

get_users_i_follow ==
    \E args \in Supplied([user |-> Users, count |-> Numbers, offset |-> Numbers]) :
        LET b == Bind(<<Req("user"), Opt("count", PyInt(100)), Opt("offset", PyInt(0))>>, args)
            user == b.v["user"]
            count == b.v["count"]
            offset == b.v["offset"]
        IN  Invoke("get_users_i_follow", args,
                IF ~b.ok THEN Raise("TypeError") ELSE
                call_api_json(<<"API_GetUsersIFollow.php", "?">>,
                    [u |-> user, c |-> count, o |-> offset]))

get_users_following_me ==
    \E args \in Supplied([user |-> Users, count |-> Numbers, offset |-> Numbers]) :
        LET b == Bind(<<Req("user"), Opt("count", PyInt(100)), Opt("offset", PyInt(0))>>, args)
            user == b.v["user"]
            count == b.v["count"]
            offset == b.v["offset"]
        IN  Invoke("get_users_following_me", args,
                IF ~b.ok THEN Raise("TypeError") ELSE
                call_api_json(<<"API_GetUsersFollowingMe.php", "?">>,
                    [u |-> user, c |-> count, o |-> offset]))

get_user_set_requests ==
    \E args \in Supplied([user |-> Users, list_type |-> Flags]) :
        LET b == Bind(<<Req("user"), Opt("list_type", PyInt(0))>>, args)
            user == b.v["user"]
            list_type == b.v["list_type"]
        IN  Invoke("get_user_set_requests", args,
                IF ~b.ok THEN Raise("TypeError") ELSE
                IF ~PyIn(list_type, <<PyInt(0), PyInt(1)>>) THEN Raise("ValueError") ELSE
                call_api_json(<<"API_GetUserSetRequests.php", "?">>,
                    [u |-> user, t |-> list_type]))

get_game ==
    \E args \in Supplied([game |-> Ids]) :
        LET b == Bind(<<Req("game")>>, args)
            game == b.v["game"]
        IN  Invoke("get_game", args,
                IF ~b.ok THEN Raise("TypeError") ELSE
                call_api_json(<<"API_GetGame.php", "?">>,
                    [i |-> game]))

\* get_game_extended without its check of set_level
get_game_extended_unchecked ==
    \E args \in Supplied([game |-> Ids, set_level |-> Levels]) :
        LET b == Bind(<<Req("game"), Opt("set_level", PyInt(3))>>, args)
            game == b.v["game"]
            set_level == b.v["set_level"]
        IN  Invoke("get_game_extended", args,
                IF ~b.ok THEN Raise("TypeError") ELSE
                call_api_json(<<"API_GetGameExtended.php", "?">>,
                    [i |-> game, f |-> set_level]))

get_game_extended ==
    \E args \in Supplied([game |-> Ids, set_level |-> Levels]) :
        LET b == Bind(<<Req("game"), Opt("set_level", PyInt(3))>>, args)
            game == b.v["game"]
            set_level == b.v["set_level"]
        IN  Invoke("get_game_extended", args,
                IF ~b.ok THEN Raise("TypeError") ELSE
                IF ~PyIn(set_level, <<PyInt(3), PyInt(5)>>) THEN Raise("ValueError") ELSE
                call_api_json(<<"API_GetGameExtended.php", "?">>,
                    [i |-> game, f |-> set_level]))

get_game_hashes ==
    \E args \in Supplied([game |-> Ids]) :
        LET b == Bind(<<Req("game")>>, args)
            game == b.v["game"]
        IN  Invoke("get_game_hashes", args,
                IF ~b.ok THEN Raise("TypeError") ELSE
                call_api_json(<<"API_GetGameHashes.php", "?">>,
                    [i |-> game]))

get_achievement_count ==
    \E args \in Supplied([game |-> Ids]) :
        LET b == Bind(<<Req("game")>>, args)
            game == b.v["game"]
        IN  Invoke("get_achievement_count", args,
                IF ~b.ok THEN Raise("TypeError") ELSE
                call_api_json(<<"API_GetAchievementCount.php", "?">>,
                    [i |-> game]))

get_achievement_distribution ==
    \E args \in Supplied([game |-> Ids, achievement_type |-> Flags, set_level |-> Levels]) :
        LET b == Bind(<<Req("game"), Opt("achievement_type", PyInt(0)), Opt("set_level", PyInt(3))>>, args)
            game == b.v["game"]
            achievement_type == b.v["achievement_type"]
            set_level == b.v["set_level"]
        IN  Invoke("get_achievement_distribution", args,
                IF ~b.ok THEN Raise("TypeError") ELSE
                IF ~PyIn(achievement_type, <<PyInt(0), PyInt(1)>>) THEN Raise("ValueError") ELSE
                IF ~PyIn(set_level, <<PyInt(3), PyInt(5)>>) THEN Raise("ValueError") ELSE
                call_api_json(<<"API_GetAchievementDistribution.php", "?">>,
                    [i |-> game, h |-> achievement_type, f |-> set_level]))

get_game_rank_and_score ==
    \E args \in Supplied([game |-> Ids, list_type |-> Flags]) :
        LET b == Bind(<<Req("game"), Opt("list_type", PyInt(0))>>, args)
            game == b.v["game"]
            list_type == b.v["list_type"]
        IN  Invoke("get_game_rank_and_score", args,
                IF ~b.ok THEN Raise("TypeError") ELSE
                IF ~PyIn(list_type, <<PyInt(0), PyInt(1)>>) THEN Raise("ValueError") ELSE
                call_api_json(<<"API_GetGameRankAndScore.php", "?">>,
                    [g |-> game, t |-> list_type]))

get_game_leaderboards ==
    \E args \in Supplied([game |-> Ids, count |-> Numbers, offset |-> Numbers]) :
        LET b == Bind(<<Req("game"), Opt("count", PyInt(100)), Opt("offset", PyInt(0))>>, args)
            game == b.v["game"]
            count == b.v["count"]
            offset == b.v["offset"]
        IN  Invoke("get_game_leaderboards", args,
                IF ~b.ok THEN Raise("TypeError") ELSE
                call_api_json(<<"API_GetGameLeaderboards.php", "?">>,
                    [i |-> game, c |-> count, o |-> offset]))

get_leaderboard_entries ==
    \E args \in Supplied([leaderboard |-> Ids, count |-> Numbers, offset |-> Numbers]) :
        LET b == Bind(<<Req("leaderboard"), Opt("count", PyInt(100)), Opt("offset", PyInt(0))>>, args)
            leaderboard == b.v["leaderboard"]
            count == b.v["count"]
            offset == b.v["offset"]
        IN  Invoke("get_leaderboard_entries", args,
                IF ~b.ok THEN Raise("TypeError") ELSE
                call_api_json(<<"API_GetLeaderboardEntries.php", "?">>,
                    [i |-> leaderboard, c |-> count, o |-> offset]))

get_user_game_leaderboards ==
    \E args \in Supplied([game |-> Ids, user |-> Users, count |-> Numbers, offset |-> Numbers]) :
        LET b == Bind(<<Req("game"), Req("user"), Opt("count", PyInt(200)), Opt("offset", PyInt(0))>>, args)
            game == b.v["game"]
            user == b.v["user"]
            count == b.v["count"]
            offset == b.v["offset"]
        IN  Invoke("get_user_game_leaderboards", args,
                IF ~b.ok THEN Raise("TypeError") ELSE
                call_api_json(<<"API_GetUserGameLeaderboards.php", "?">>,
                    [i |-> game, u |-> user, c |-> count, o |-> offset]))

get_console_ids ==
    \E args \in {EmptyMap} :
        LET b == Bind(<<>>, args)
        IN  Invoke("get_console_ids", args,
                IF ~b.ok THEN Raise("TypeError") ELSE
                call_api_json(<<"API_GetConsoleIDs.php", "?">>,
                    EmptyMap))

get_game_list ==
    \E args \in Supplied([system |-> Ids, has_cheevos |-> Flags, hashes |-> Flags]) :
        LET b == Bind(<<Req("system"), Opt("has_cheevos", PyInt(0)), Opt("hashes", PyInt(0))>>, args)
            system == b.v["system"]
            has_cheevos == b.v["has_cheevos"]
            hashes == b.v["hashes"]
        IN  Invoke("get_game_list", args,
                IF ~b.ok THEN Raise("TypeError") ELSE
                IF ~PyIn(has_cheevos, <<PyInt(0), PyInt(1)>>) THEN Raise("ValueError") ELSE
                IF ~PyIn(hashes, <<PyInt(0), PyInt(1)>>) THEN Raise("ValueError") ELSE
                call_api_json(<<"API_GetGameList.php", "?">>,
                    [i |-> system, f |-> has_cheevos, h |-> hashes]))

get_achievement_unlocks ==
    \E args \in Supplied([achievement |-> Ids, count |-> Numbers, offset |-> Numbers]) :
        LET b == Bind(<<Req("achievement"), Opt("count", PyInt(50)), Opt("offset", PyInt(0))>>, args)
            achievement == b.v["achievement"]
            count == b.v["count"]
            offset == b.v["offset"]
        IN  Invoke("get_achievement_unlocks", args,
                IF ~b.ok THEN Raise("TypeError") ELSE
                call_api_json(<<"API_GetAchievementUnlocks.php", "?">>,
                    [a |-> achievement, c |-> count, o |-> offset]))

\* get_comments sending the offset under the key f
get_comments_offset_key ==
    \E args \in Supplied([game |-> Ids, target |-> Targets, count |-> Numbers, offset |-> Numbers, sort |-> Sorts]) :
        LET b == Bind(<<Req("game"), Req("target"), Opt("count", PyInt(100)), Opt("offset", PyInt(0)), Opt("sort", PyStr(<<"submitted">>))>>, args)
            game == b.v["game"]
            target == b.v["target"]
            count == b.v["count"]
            offset == b.v["offset"]
            sort == b.v["sort"]
        IN  Invoke("get_comments", args,
                IF ~b.ok THEN Raise("TypeError") ELSE
                IF ~PyIn(target, <<PyInt(1), PyInt(2), PyInt(3)>>) THEN Raise("ValueError") ELSE
                IF ~PyIn(sort, <<PyStr(<<"submitted">>), PyStr(<<"-submitted">>)>>) THEN Raise("ValueError") ELSE
                call_api_json(<<"API_GetComments.php", "?">>,
                    [i |-> game, t |-> target, c |-> count, f |-> offset, sort |-> sort]))

get_comments ==
    \E args \in Supplied([game |-> Ids, target |-> Targets, count |-> Numbers, offset |-> Numbers, sort |-> Sorts]) :
        LET b == Bind(<<Req("game"), Req("target"), Opt("count", PyInt(100)), Opt("offset", PyInt(0)), Opt("sort", PyStr(<<"submitted">>))>>, args)
            game == b.v["game"]
            target == b.v["target"]
            count == b.v["count"]
            offset == b.v["offset"]
            sort == b.v["sort"]
        IN  Invoke("get_comments", args,
                IF ~b.ok THEN Raise("TypeError") ELSE
                IF ~PyIn(target, <<PyInt(1), PyInt(2), PyInt(3)>>) THEN Raise("ValueError") ELSE
                IF ~PyIn(sort, <<PyStr(<<"submitted">>), PyStr(<<"-submitted">>)>>) THEN Raise("ValueError") ELSE
                call_api_json(<<"API_GetComments.php", "?">>,
                    [i |-> game, t |-> target, c |-> count, o |-> offset, sort |-> sort]))

get_recent_game_awards ==
    \E args \in Supplied([date |-> DateArgs, offset |-> Numbers, count |-> Numbers, kind |-> AwardKinds]) :
        LET b == Bind(<<Opt("date", None), Opt("offset", PyInt(0)), Opt("count", PyInt(25)), Opt("kind", None)>>, args)
            date == b.v["date"]
            offset == b.v["offset"]
            count == b.v["count"]
            kind == b.v["kind"]
            date_1 == IF IsNone(date) THEN PyStr(strftime_Ymd(today)) ELSE date
        IN  Invoke("get_recent_game_awards", args,
                IF ~b.ok THEN Raise("TypeError") ELSE
                IF ~IsNone(kind) /\ ~PyIn(kind, <<PyStr(<<"beaten-softcore">>), PyStr(<<"beaten-hardcore">>), PyStr(<<"completed">>), PyStr(<<"mastered">>)>>) THEN Raise("ValueError") ELSE
                call_api_json(<<"API_GetRecentGameAwards.php", "?">>,
                    [d |-> date_1, o |-> offset, c |-> count, k |-> kind]))

get_active_claims ==
    \E args \in {EmptyMap} :
        LET b == Bind(<<>>, args)
        IN  Invoke("get_active_claims", args,
                IF ~b.ok THEN Raise("TypeError") ELSE
                call_api_json(<<"API_GetActiveClaims.php", "?">>,
                    EmptyMap))

get_inactive_claims ==
    \E args \in Supplied([kind |-> ClaimKinds]) :
        LET b == Bind(<<Opt("kind", PyInt(1))>>, args)
            kind == b.v["kind"]
        IN  Invoke("get_inactive_claims", args,
                IF ~b.ok THEN Raise("TypeError") ELSE
                IF ~PyIn(kind, <<PyInt(1), PyInt(2), PyInt(3)>>) THEN Raise("ValueError") ELSE
                call_api_json(<<"API_GetInactiveClaims.php", "?">>,
                    [k |-> kind]))

get_top_ten_users ==
    \E args \in {EmptyMap} :
        LET b == Bind(<<>>, args)
        IN  Invoke("get_top_ten_users", args,
                IF ~b.ok THEN Raise("TypeError") ELSE
                call_api_json(<<"API_GetTopTenUsers.php", "?">>,
                    EmptyMap))

get_achievement_of_the_week ==
    \E args \in {EmptyMap} :
        LET b == Bind(<<>>, args)
        IN  Invoke("get_achievement_of_the_week", args,
                IF ~b.ok THEN Raise("TypeError") ELSE
                call_api_json(<<"API_GetAchievementOfTheWeek.php", "?">>,
                    EmptyMap))

get_ticket_data ==
    \E args \in Supplied([ticket_id |-> Ids]) :
        LET b == Bind(<<Req("ticket_id")>>, args)
            ticket_id == b.v["ticket_id"]
        IN  Invoke("get_ticket_data", args,
                IF ~b.ok THEN Raise("TypeError") ELSE
                call_api_json(<<"API_GetTicketData.php", "?">>,
                    [i |-> ticket_id]))

get_most_ticketed_games ==
    \E args \in Supplied([focus |-> Flags]) :
        LET b == Bind(<<Opt("focus", PyInt(1))>>, args)
            focus == b.v["focus"]
        IN  Invoke("get_most_ticketed_games", args,
                IF ~b.ok THEN Raise("TypeError") ELSE
                call_api_json(<<"API_GetTicketData.php", "?">>,
                    [f |-> focus]))

get_most_recent_tickets ==
    \E args \in Supplied([count |-> Numbers, offset |-> Numbers]) :
        LET b == Bind(<<Opt("count", PyInt(10)), Opt("offset", PyInt(0))>>, args)
            count == b.v["count"]
            offset == b.v["offset"]
        IN  Invoke("get_most_recent_tickets", args,
                IF ~b.ok THEN Raise("TypeError") ELSE
                call_api_json(<<"API_GetTicketData.php", "?">>,
                    [c |-> count, o |-> offset]))

get_game_ticket_stats ==
    \E args \in Supplied([game |-> Ids, focus |-> Levels, depth |-> Numbers]) :
        LET b == Bind(<<Req("game"), Opt("focus", PyInt(3)), Opt("depth", PyInt(0))>>, args)
            game == b.v["game"]
            focus == b.v["focus"]
            depth == b.v["depth"]
        IN  Invoke("get_game_ticket_stats", args,
                IF ~b.ok THEN Raise("TypeError") ELSE
                IF ~PyIn(focus, <<PyInt(3), PyInt(5)>>) THEN Raise("ValueError") ELSE
                call_api_json(<<"API_GetTicketData.php", "?">>,
                    [g |-> game, f |-> focus, d |-> depth]))

get_developer_ticket_stats ==
    \E args \in Supplied([username |-> Users, ulid |-> Ulids]) :
        LET b == Bind(<<Req("username"), Req("ulid")>>, args)
            username == b.v["username"]
            ulid == b.v["ulid"]
        IN  Invoke("get_developer_ticket_stats", args,
                IF ~b.ok THEN Raise("TypeError") ELSE
                call_api_json(<<"API_GetTicketData.php", "?">>,
                    [u |-> username, i |-> ulid]))

get_achievement_ticket_stats ==
    \E args \in Supplied([achievement |-> Ids]) :
        LET b == Bind(<<Req("achievement")>>, args)
            achievement == b.v["achievement"]
        IN  Invoke("get_achievement_ticket_stats", args,
                IF ~b.ok THEN Raise("TypeError") ELSE
                call_api_json(<<"API_GetTicketData.php", "?">>,
                    [a |-> achievement]))

----------------------------------------------------------------------------
(* The public helpers called directly *)

\* a caller calls client.url_params(params)
call_url_params ==
    \E args \in Supplied([params |-> CallerParams]) :
        LET b == Bind(<<Opt("params", None)>>, args)
            params == b.v["params"]
        IN  Invoke("url_params", args,
                Return(url_params(params), params_after(params)))

\* a caller calls client.is_valid_game_csv(value)
call_is_valid_game_csv ==
    \E args \in Supplied([value |-> GameArgs]) :
        LET b == Bind(<<Req("value")>>, args)
            value == b.v["value"]
        IN  Invoke("is_valid_game_csv", args,
                IF ~b.ok THEN Raise("TypeError") ELSE
                Return(PyBool(IF is_valid_game_csv(value) THEN 1 ELSE 0), None))

\* a caller calls client._call_api(...)
call_call_api ==
    \E args \in Supplied([endpoint |-> Endpoints, params |-> CallerParams,
                          timeout |-> Numbers, headers |-> {None, headers}]) :
        Invoke("_call_api", args, _call_api(args))

----------------------------------------------------------------------------
(* request.get ends *)

\* json.loads of a response body
json_loads(body) ==
    CASE body = PyStr(<<"{", "}">>) -> [ok |-> TRUE, value |-> PyDict(EmptyMap)]
      [] body = PyStr(<<"[", "]">>) -> [ok |-> TRUE, value |-> PyList(<<>>)]
      [] OTHER -> [ok |-> FALSE, value |-> None]

\* after_get with a status check (raise_for_status) before the decoding
after_get_raise_for_status(r) ==
    IF r.status >= 400 THEN Raised("HTTPError")
    ELSE IF pc = "get" THEN Returned(<<"Response", r.status, r.body>>)
    ELSE LET d == json_loads(r.body)
         IN  IF d.ok THEN Returned(d.value) ELSE Raised("JSONDecodeError")

\* what the blocked invocation does with the response `r`
after_get(r) ==
    IF pc = "get" THEN Returned(<<"Response", r.status, r.body>>)
    ELSE LET d == json_loads(r.body)
         IN  IF d.ok THEN Returned(d.value) ELSE Raised("JSONDecodeError")

\* get_raises with one retry of the failed request
get_raises_retry ==
    /\ pc \in {"get", "get_json"}
    /\ get_count < MaxRequests
    /\ get_count' = get_count + 1
    /\ sent' = Append(sent, sent[1])
    /\ UNCHANGED <<api_key, today, pc, call, entry_count, response, outcome,
                   advisories, caller_params>>

\* request.get raises: the exception leaves the invocation as it is
get_raises ==
    /\ pc \in {"get", "get_json"}
    /\ \E exc \in TransportErrors :
           /\ response' = [NoResponse EXCEPT !.kind = "exception", !.exc = exc]
           /\ outcome' = Raised(exc)
    /\ pc' = "done"
    /\ UNCHANGED <<api_key, today, call, get_count, entry_count, sent,
                   advisories, caller_params>>

\* request.get returns a response, whatever its status
get_returns ==
    /\ pc \in {"get", "get_json"}
    /\ \E status \in Statuses, body \in Bodies :
           LET r == [kind |-> "response", exc |-> "", status |-> status,
                     body |-> body]
           IN  /\ response' = r
               /\ outcome' = after_get(r)
    /\ pc' = "done"
    /\ UNCHANGED <<api_key, today, call, get_count, entry_count, sent,
                   advisories, caller_params>>

----------------------------------------------------------------------------
(* The environment *)

\* the caller takes the outcome; nothing of the finished invocation remains
resume ==
    /\ pc = "done"
    /\ pc' = "idle"
    /\ call' = NoCall
    /\ entry_count' = get_count
    /\ sent' = <<>>
    /\ response' = NoResponse
    /\ outcome' = [kind |-> "none", exc |-> "", value |-> None]
    /\ advisories' = <<>>
    /\ caller_params' = None
    /\ UNCHANGED <<api_key, today, get_count>>

\* midnight passes
day_passes ==
    /\ today' \in Dates \ {today}
    /\ UNCHANGED <<api_key, pc, call, get_count, entry_count, sent, response,
                   outcome, advisories, caller_params>>

Next ==
    \/ get_user_profile
    \/ get_user_recent_achievements
    \/ get_user_achievements_earned_between
    \/ get_user_achievements_earned_on_day
    \/ get_game_info_and_user_progress
    \/ get_user_completion_progress
    \/ get_user_awards
    \/ get_user_claims
    \/ get_user_game_rank_and_score
    \/ get_user_points
    \/ get_user_progress
    \/ get_user_recently_played_games
    \/ get_user_summary
    \/ get_user_completed_games
    \/ get_user_want_to_play_list
    \/ get_users_i_follow
    \/ get_users_following_me
    \/ get_user_set_requests
    \/ get_game
    \/ get_game_extended
    \/ get_game_hashes
    \/ get_achievement_count
    \/ get_achievement_distribution
    \/ get_game_rank_and_score
    \/ get_game_leaderboards
    \/ get_leaderboard_entries
    \/ get_user_game_leaderboards
    \/ get_console_ids
    \/ get_game_list
    \/ get_achievement_unlocks
    \/ get_comments
    \/ get_recent_game_awards
    \/ get_active_claims
    \/ get_inactive_claims
    \/ get_top_ten_users
    \/ get_achievement_of_the_week
    \/ get_ticket_data
    \/ get_most_ticketed_games
    \/ get_most_recent_tickets
    \/ get_game_ticket_stats
    \/ get_developer_ticket_stats
    \/ get_achievement_ticket_stats
    \/ call_url_params
    \/ call_is_valid_game_csv
    \/ call_call_api
    \/ get_raises
    \/ get_returns
    \/ resume
    \/ day_passes

Spec == Init /\ [][Next]_vars

----------------------------------------------------------------------------
(* Properties *)

\* the invocation in `call` is one of an endpoint wrapper
IsWrapperCall == call.op \notin {"", "url_params", "is_valid_game_csv", "_call_api"}

\* the caller supplied every one of these parameters
Has(names) == names \subseteq DOMAIN call.args

\* The identifier-list format as the design describes it, position by
\* position: every non-empty piece between commas is a run of digits with
\* optional whitespace around it.  Integers (bool is a kind of int) pass, any
\* other type fails.
IsCsvToken(s, i, j) ==
    \E x \in i..j : \E y \in x..j :
        /\ \A k \in x..y : s[k] \in Digits
        /\ \A k \in i..(x - 1) : s[k] \in Whitespace
        /\ \A k \in (y + 1)..j : s[k] \in Whitespace

IsIdentifierList(v) ==
    \/ TypeOf(v) \in {"int", "bool"}
    \/ /\ TypeOf(v) = "str"
       /\ LET s == v[2] IN
          \A i \in 1..Len(s) : \A j \in i..Len(s) :
              ( /\ \A k \in i..j : s[k] # ","
                /\ (i = 1 \/ s[i - 1] = ",")
                /\ (j = Len(s) \/ s[j + 1] = ",") )
              => IsCsvToken(s, i, j)

\* The enumerated constraints: wrapper, parameter, legal values, and the
\* parameters the wrapper cannot be called without.
EnumConstraints ==
    { [op |-> "get_game_info_and_user_progress", param |-> "awards",
       legal |-> {PyInt(0), PyInt(1)}, required |-> {"user", "game"}],
      [op |-> "get_user_set_requests", param |-> "list_type",
       legal |-> {PyInt(0), PyInt(1)}, required |-> {"user"}],
      [op |-> "get_game_extended", param |-> "set_level",
       legal |-> {PyInt(3), PyInt(5)}, required |-> {"game"}],
      [op |-> "get_achievement_distribution", param |-> "achievement_type",
       legal |-> {PyInt(0), PyInt(1)}, required |-> {"game"}],
      [op |-> "get_achievement_distribution", param |-> "set_level",
       legal |-> {PyInt(3), PyInt(5)}, required |-> {"game"}],
      [op |-> "get_game_rank_and_score", param |-> "list_type",
       legal |-> {PyInt(0), PyInt(1)}, required |-> {"game"}],
      [op |-> "get_game_list", param |-> "has_cheevos",
       legal |-> {PyInt(0), PyInt(1)}, required |-> {"system"}],
      [op |-> "get_game_list", param |-> "hashes",
       legal |-> {PyInt(0), PyInt(1)}, required |-> {"system"}],
      [op |-> "get_comments", param |-> "target",
       legal |-> {PyInt(1), PyInt(2), PyInt(3)}, required |-> {"game", "target"}],
      [op |-> "get_comments", param |-> "sort",
       legal |-> {PyStr(<<"submitted">>), PyStr(<<"-submitted">>)},
       required |-> {"game", "target"}],
      [op |-> "get_recent_game_awards", param |-> "kind",
       legal |-> {None, PyStr(<<"beaten-softcore">>), PyStr(<<"beaten-hardcore">>),
                  PyStr(<<"completed">>), PyStr(<<"mastered">>)},
       required |-> {}],
      [op |-> "get_inactive_claims", param |-> "kind",
       legal |-> {PyInt(1), PyInt(2), PyInt(3)}, required |-> {}],
      [op |-> "get_game_ticket_stats", param |-> "focus",
       legal |-> {PyInt(3), PyInt(5)}, required |-> {"game"}] }

\* the invocation in `call` was given an argument outside its legal set
IllegalArgument ==
    \/ \E c \in EnumConstraints :
           /\ call.op = c.op
           /\ Has(c.required \cup {c.param})
           /\ call.args[c.param] \notin c.legal
    \/ /\ call.op = "get_user_progress"
       /\ Has({"user", "game"})
       /\ ~IsIdentifierList(call.args["game"])

\* C1: a wrapper called with an argument outside the legal set of an
\* enumerated constraint, or with a game argument that is no identifier list,
\* ends in ValueError, and request.get has been called as often after the
\* call as before it.
C1_IllegalArgumentNoRequest ==
    IllegalArgument =>
        /\ pc = "done"
        /\ outcome = Raised("ValueError")
        /\ get_count = entry_count
        /\ sent = <<>>

\* a rejected set_level, after an earlier request had been counted
C1_Witness ==
    /\ call.op = "get_game_extended"
    /\ IllegalArgument
    /\ outcome = Raised("ValueError")
    /\ get_count = 1
    /\ entry_count = 1

\* C2: every request made through _call_api carries y, and y is the key the
\* client was constructed with, whatever mapping the caller supplied.
C2_AuthKeyAlwaysSent ==
    \A n \in 1..Len(sent) :
        /\ TypeOf(sent[n].params) = "dict"
        /\ "y" \in DOMAIN sent[n].params[2]
        /\ sent[n].params[2]["y"] = api_key

\* _call_api was handed a mapping whose y is another key, and sent a request
C2_Witness ==
    /\ call.op = "_call_api"
    /\ Has({"params"})
    /\ TypeOf(call.args["params"]) = "dict"
    /\ "y" \in DOMAIN call.args["params"][2]
    /\ call.args["params"][2]["y"] # api_key
    /\ Len(sent) = 1

C4_DocumentedInvalidRejected ==
    ( /\ pc = "done"
      /\ call.op = "is_valid_game_csv"
      /\ Has({"value"})
      /\ call.args["value"] \in DocInvalid )
    => outcome = Returned(PyBool(0))

\* C5: every request an endpoint wrapper makes carries the client identity
\* header, User-Agent: RetroAchievements-api-python/<version>.
C5_IdentityHeaderSent ==
    IsWrapperCall =>
        \A n \in 1..Len(sent) :
            /\ TypeOf(sent[n].headers) = "dict"
            /\ "User-Agent" \in DOMAIN sent[n].headers[2]
            /\ sent[n].headers[2]["User-Agent"] =
                   PyStr(<<"RetroAchievements-api-python/", __version__>>)

\* the calendar date a YYYY-MM-DD text stands for
DigitValue(c) == CHOOSE n \in 0..9 : DigitChars[n + 1] = c

IsDateText(v, d) ==
    /\ TypeOf(v) = "str"
    /\ Len(v[2]) = 10
    /\ v[2][5] = "-"
    /\ v[2][8] = "-"
    /\ \A k \in {1, 2, 3, 4, 6, 7, 9, 10} : v[2][k] \in Digits
    /\ d.year = 1000 * DigitValue(v[2][1]) + 100 * DigitValue(v[2][2])
                    + 10 * DigitValue(v[2][3]) + DigitValue(v[2][4])
    /\ d.month = 10 * DigitValue(v[2][6]) + DigitValue(v[2][7])
    /\ d.day = 10 * DigitValue(v[2][9]) + DigitValue(v[2][10])

\* C6: a call of get_user_achievements_earned_on_day or of
\* get_recent_game_awards without a date argument makes a request whose d is
\* the current local date as YYYY-MM-DD; with a date argument, d is that date.
C6_DateDefaulting ==
    [][ ( /\ pc = "idle"
          /\ \/ call'.op = "get_user_achievements_earned_on_day"
                    /\ "user" \in DOMAIN call'.args
             \/ call'.op = "get_recent_game_awards"
                    /\ ("kind" \in DOMAIN call'.args =>
                            call'.args["kind"] \in AwardKinds \ {PyStr(<<"beaten">>)}) )
        => /\ Len(sent') = 1
           /\ "d" \in DOMAIN sent'[1].params[2]
           /\ IF "date" \notin DOMAIN call'.args
              THEN IsDateText(sent'[1].params[2]["d"], today)
              ELSE IsNone(call'.args["date"])
                       \/ sent'[1].params[2]["d"] = call'.args["date"]
      ]_vars

\* a response body that is JSON text
IsJsonBody(body) == body \in { PyStr(<<"{", "}">>), PyStr(<<"[", "]">>) }

\* C7 as stated: when the request of a wrapper call ends in a network error, a
\* timeout or a non-success status, the wrapper call ends in an error.
C7_FailureAlwaysSurfaces ==
    ( /\ pc = "done"
      /\ IsWrapperCall
      /\ \/ response.kind = "exception"
         \/ response.kind = "response" /\ response.status \notin 200..299 )
    => outcome.kind = "raised"

\* C7 as the code has it: a network error or a timeout reaches the caller as
\* that error and a body that is not JSON as a decoding error; a response with
\* a JSON body is decoded and returned as the result, whatever its status.
C7_TransportAndDecodeErrorsSurface ==
    (pc = "done" /\ IsWrapperCall /\ Len(sent) = 1) =>
        /\ response.kind = "exception" =>
               outcome = Raised(response.exc) /\ response.exc \in TransportErrors
        /\ (response.kind = "response" /\ ~IsJsonBody(response.body)) =>
               outcome = Raised("JSONDecodeError")
        /\ (response.kind = "response" /\ IsJsonBody(response.body)) =>
               outcome.kind = "returned"

\* get_game returned the decoded body of a 404 response
C7_Witness ==
    /\ pc = "done"
    /\ call.op = "get_game"
    /\ response.kind = "response"
    /\ response.status = 404
    /\ response.body = PyStr(<<"{", "}">>)
    /\ outcome = Returned(PyDict(EmptyMap))

\* C8: every call of get_user_progress, get_user_summary and
\* get_user_completed_games issues one advisory; the advisory is no error of
\* the call, the call goes on to its request, and a decodable response is
\* returned as the result.
C8_AdvisoryNeverBlocks ==
    ( \/ call.op = "get_user_progress" /\ Has({"user", "game"})
      \/ call.op = "get_user_summary" /\ Has({"user"})
      \/ call.op = "get_user_completed_games" /\ Has({"user"}) )
    => /\ Len(advisories) = 1
       /\ advisories[1].category \in {"Warning", "DeprecationWarning"}
       /\ outcome.exc \notin {"Warning", "DeprecationWarning"}
       /\ (call.op = "get_user_progress" =>
               IsIdentifierList(call.args["game"])) => Len(sent) = 1
       /\ ( /\ pc = "done"
            /\ response.kind = "response"
            /\ IsJsonBody(response.body) ) => outcome.kind = "returned"

\* get_user_completed_games issued its DeprecationWarning and returned
C8_Witness ==
    /\ pc = "done"
    /\ call.op = "get_user_completed_games"
    /\ Len(advisories) = 1
    /\ advisories[1].category = "DeprecationWarning"
    /\ Len(sent) = 1
    /\ outcome.kind = "returned"

\* C9: a wrapper invocation that gets past its argument checks calls
\* request.get exactly once and ends only after that call has returned or
\* raised; no invocation calls request.get a second time, a failed request
\* ends the invocation.
C9_OneRequestPerInvocation ==
    /\ Len(sent) = get_count - entry_count
    /\ Len(sent) <= 1
    /\ IsWrapperCall =>
        /\ pc = "get_json" => (Len(sent) = 1 /\ outcome = Pending)
        /\ (pc = "done" /\ outcome.exc \notin {"TypeError", "ValueError"}) =>
               (Len(sent) = 1 /\ response.kind \in {"exception", "response"})
        /\ response.kind = "exception" =>
               (pc = "done" /\ outcome.kind = "raised" /\ Len(sent) = 1)

\* a wrapper call whose only request timed out
C9_Witness ==
    /\ pc = "done"
    /\ IsWrapperCall
    /\ response.kind = "exception"
    /\ response.exc = "Timeout"
    /\ outcome = Raised("Timeout")
    /\ Len(sent) = 1

C11_ClientImmutable ==
    [][ api_key' = api_key /\ api_key \in Keys ]_vars

\* after an earlier request, a direct _call_api with another y in the caller's
\* mapping has failed in the transport
C11_Witness ==
    /\ pc = "done"
    /\ get_count = 2
    /\ call.op = "_call_api"
    /\ Has({"params"})
    /\ TypeOf(call.args["params"]) = "dict"
    /\ "y" \in DOMAIN call.args["params"][2]
    /\ call.args["params"][2]["y"] # api_key
    /\ response.kind = "exception"
    /\ outcome.kind = "raised"

\* C12: every request of get_most_ticketed_games carries f = 1, whatever
\* focus the caller passes.
C12_MostTicketedSendsOne ==
    (call.op = "get_most_ticketed_games" /\ Len(sent) = 1) =>
        /\ "f" \in DOMAIN sent[1].params[2]
        /\ sent[1].params[2]["f"] = PyInt(1)

\* the mapping `m` is `orig` with y set to the client's key
IsUpdated(m, orig) ==
    /\ TypeOf(m) = "dict"
    /\ DOMAIN m[2] = DOMAIN orig[2] \cup {"y"}
    /\ m[2]["y"] = api_key
    /\ \A k \in DOMAIN orig[2] \ {"y"} : m[2][k] = orig[2][k]

\* C13: url_params and _call_api work on the caller's mapping itself: after
\* the call the caller's mapping is what it was with y set to the client's key
\* (an earlier y overwritten), and it is the mapping url_params returns and
\* _call_api sends; only without a mapping is a new one made, {y: key}.
C13_ParamsUpdatedInPlace ==
    (call.op \in {"url_params", "_call_api"}) =>
        IF Has({"params"}) /\ ~IsNone(call.args["params"])
        THEN /\ IsUpdated(caller_params, call.args["params"])
             /\ call.op = "url_params" => outcome = Returned(caller_params)
             /\ call.op = "_call_api" => sent[1].params = caller_params
        ELSE /\ IsNone(caller_params)
             /\ call.op = "url_params" =>
                    outcome = Returned(PyDict([y |-> api_key]))
             /\ call.op = "_call_api" =>
                    sent[1].params = PyDict([y |-> api_key])

\* url_params was handed a mapping with another y and an entry of its own;
\* the caller's mapping now has the client's key
C13_Witness ==
    /\ pc = "done"
    /\ call.op = "url_params"
    /\ Has({"params"})
    /\ call.args["params"] = PyDict("i" :> PyInt(10) @@ "y" :> PyStr(<<"other">>))
    /\ caller_params = PyDict("i" :> PyInt(10) @@ "y" :> api_key)
    /\ outcome = Returned(caller_params)

====
